---- MODULE Spec2Model ----
(***************************************************************************)
(* Model of src/src/graphics/model.rs: the glTF scene loader Model::new,   *)
(* the transform mutations translate / rotate / scale, Model::draw and the *)
(* ready / behavior callbacks.                                             *)
(*                                                                         *)
(* f32 values are modelled as exact reals.  Vectors of the document and of *)
(* the callers are integer vectors; quaternions and matrices hold scalars  *)
(* of the ring Z[sqrt 2][1/2], which is closed under the products that     *)
(* rotations by multiples of 90 degrees produce: the scalar <<a, b, k>> is *)
(* (a + b*sqrt(2)) / 2^k, kept in lowest terms.                            *)
(***************************************************************************)
EXTENDS Integers, Sequences, FiniteSets, TLC

VARIABLES doc, images, status, nodes, ready_callback, behavior_callback,
          loads, gl, calls, last, prev, ops

vars == <<doc, images, status, nodes, ready_callback, behavior_callback,
          loads, gl, calls, last, prev, ops>>

\* doc, images        the glTF document and its images, as gltf::import returns them
\* status             "start" before Model::new, then "loaded", or "panicked"
\* nodes              Model.nodes
\* ready_callback     Model.ready_callback
\* behavior_callback  Model.behavior_callback
\* loads              the calls of Texture::load_from_gltf of the load, per image index
\* gl                 the Shader and Mesh calls of the latest draw, in order
\* calls              the callbacks the latest call invoked, in order
\* last, prev         the latest call and the one before it: its name, its
\*                    arguments and the nodes it found
\* ops                the number of calls made on the Model

\* Option<T>: None, or Some(x) with x = o[1].
None == <<>>

Some(x) == <<x>>

\* ------------------------------------------------------------- scalars

RECURSIVE SNorm(_)
SNorm(s) ==
    IF s[3] > 0 /\ s[1] % 2 = 0 /\ s[2] % 2 = 0
    THEN SNorm(<<s[1] \div 2, s[2] \div 2, s[3] - 1>>)
    ELSE s

Sc(n) == <<n, 0, 0>>

\* Integers are added and multiplied as integers; the general case follows.
SAdd(s, t) ==
    IF s[3] = 0 /\ t[3] = 0 THEN <<s[1] + t[1], s[2] + t[2], 0>>
    ELSE IF s[3] = t[3] THEN SNorm(<<s[1] + t[1], s[2] + t[2], s[3]>>)
    ELSE IF s[3] > t[3]
    THEN SNorm(<<s[1] + t[1] * 2 ^ (s[3] - t[3]), s[2] + t[2] * 2 ^ (s[3] - t[3]), s[3]>>)
    ELSE SNorm(<<s[1] * 2 ^ (t[3] - s[3]) + t[1], s[2] * 2 ^ (t[3] - s[3]) + t[2], t[3]>>)

SNeg(s) == <<0 - s[1], 0 - s[2], s[3]>>

SSub(s, t) == SAdd(s, SNeg(t))

SMul(s, t) ==
    IF s[2] = 0 /\ t[2] = 0 /\ s[3] = 0 /\ t[3] = 0 THEN <<s[1] * t[1], 0, 0>>
    ELSE SNorm(<<s[1] * t[1] + 2 * s[2] * t[2], s[1] * t[2] + s[2] * t[1], s[3] + t[3]>>)

\* ------------------------------------------------------------ matrices
\* A Mat4 is a tuple of four rows of four scalars.

Identity4 ==
    << <<Sc(1), Sc(0), Sc(0), Sc(0)>>, <<Sc(0), Sc(1), Sc(0), Sc(0)>>,
       <<Sc(0), Sc(0), Sc(1), Sc(0)>>, <<Sc(0), Sc(0), Sc(0), Sc(1)>> >>

MatEntry(A, B, i, j) ==
    SAdd(SAdd(SMul(A[i][1], B[1][j]), SMul(A[i][2], B[2][j])),
         SAdd(SMul(A[i][3], B[3][j]), SMul(A[i][4], B[4][j])))

MatRow(A, B, i) ==
    <<MatEntry(A, B, i, 1), MatEntry(A, B, i, 2), MatEntry(A, B, i, 3), MatEntry(A, B, i, 4)>>

\* A * B; a and b hold the values of the two factors.
MatMul(A, B) ==
    CHOOSE M \in {<<MatRow(a, b, 1), MatRow(a, b, 2), MatRow(a, b, 3), MatRow(a, b, 4)>> :
                    a \in {A}, b \in {B}} : TRUE

\* glm::translate(m, v): m right-multiplied by the translation matrix of v;
\* only the fourth column changes: m[0]*v.x + m[1]*v.y + m[2]*v.z + m[3].
TranslatedRow(r, v) ==
    <<r[1], r[2], r[3],
      SAdd(SAdd(SMul(r[1], Sc(v[1])), SMul(r[2], Sc(v[2]))),
           SAdd(SMul(r[3], Sc(v[3])), r[4]))>>

glm_translate(m, v) ==
    <<TranslatedRow(m[1], v), TranslatedRow(m[2], v),
      TranslatedRow(m[3], v), TranslatedRow(m[4], v)>>

\* glm::scale(m, v): m right-multiplied by diag(v.x, v.y, v.z, 1); column j
\* is scaled by v[j].
ScaledRow(r, v) ==
    <<SMul(r[1], Sc(v[1])), SMul(r[2], Sc(v[2])), SMul(r[3], Sc(v[3])), r[4]>>

glm_scale(m, v) ==
    <<ScaledRow(m[1], v), ScaledRow(m[2], v), ScaledRow(m[3], v), ScaledRow(m[4], v)>>

\* --------------------------------------------------------- quaternions
\* A quaternion is [w, x, y, z] of scalars.

\* glm::quat(x, y, z, w)
quat(x, y, z, w) == [w |-> w, x |-> x, y |-> y, z |-> z]

\* Hamilton product p * q
QuatMul(p, q) ==
    [w |-> SSub(SSub(SMul(p.w, q.w), SMul(p.x, q.x)),
                SAdd(SMul(p.y, q.y), SMul(p.z, q.z))),
     x |-> SAdd(SAdd(SMul(p.w, q.x), SMul(p.x, q.w)),
                SSub(SMul(p.y, q.z), SMul(p.z, q.y))),
     y |-> SAdd(SSub(SMul(p.w, q.y), SMul(p.x, q.z)),
                SAdd(SMul(p.y, q.w), SMul(p.z, q.x))),
     z |-> SAdd(SAdd(SMul(p.w, q.z), SMul(p.x, q.y)),
                SSub(SMul(p.z, q.w), SMul(p.y, q.x)))]

\* glm::quat_to_mat4(q): the homogeneous rotation matrix of q, taken as a
\* unit quaternion (no normalisation).
RotationOf(ww, ii, jj, kk, ij, wk, wj, ik, jk, wi) ==
    << <<SSub(SAdd(ww, ii), SAdd(jj, kk)), SSub(ij, wk), SAdd(wj, ik), Sc(0)>>,
       <<SAdd(wk, ij), SAdd(SSub(ww, ii), SSub(jj, kk)), SSub(jk, wi), Sc(0)>>,
       <<SSub(ik, wj), SAdd(wi, jk), SAdd(SSub(ww, ii), SSub(kk, jj)), Sc(0)>>,
       <<Sc(0), Sc(0), Sc(0), Sc(1)>> >>

quat_to_mat4(q) ==
    RotationOf(SMul(q.w, q.w), SMul(q.x, q.x), SMul(q.y, q.y), SMul(q.z, q.z),
               SMul(Sc(2), SMul(q.x, q.y)), SMul(Sc(2), SMul(q.w, q.z)),
               SMul(Sc(2), SMul(q.w, q.y)), SMul(Sc(2), SMul(q.x, q.z)),
               SMul(Sc(2), SMul(q.y, q.z)), SMul(Sc(2), SMul(q.w, q.x)))

\* The angles the callers use, in degrees, and the cosine and sine of half
\* of each (glm::radians, then the half-angle terms of quat_angle_axis).
Degrees == {90, -90}

HalfCos(d) ==
    CASE d = 90 -> <<0, 1, 1>>
      [] d = -90 -> <<0, 1, 1>>

HalfSin(d) ==
    CASE d = 90 -> <<0, 1, 1>>
      [] d = -90 -> <<0, -1, 1>>

\* glm::quat_angle_axis(radians(d), axis) for a unit axis:
\* (cos(a/2), sin(a/2) * axis).
quat_angle_axis(d, axis) ==
    [w |-> HalfCos(d),
     x |-> SMul(HalfSin(d), Sc(axis[1])),
     y |-> SMul(HalfSin(d), Sc(axis[2])),
     z |-> SMul(HalfSin(d), Sc(axis[3]))]

\* ------------------------------------------------------ the glTF document
\* A document node is [name, transform, mesh]: name is None or a string,
\* transform is the decomposed [translation, rotation, scale] with rotation
\* as [x, y, z, w], mesh is None or a sequence of primitives.  A primitive
\* holds what its reader and its material return; an absent accessor or
\* texture slot is None.  images[i] is the pixel format of image i.

Formats == {"R8G8B8A8", "R8G8B8", "R8", "R8G8"}

White == <<1, 1, 1, 1>>

\* ------------------------------------------------------------ Model::new
\* The loader's running state: cache is texture_cache (None: no entry),
\* loads counts the calls of Texture::load_from_gltf per image index,
\* made counts the Rc::new allocations, panic is set by unwrap / panic!.

NoCache(imgs) ==
    [cache |-> [i \in DOMAIN imgs |-> None],
     loads |-> [i \in DOMAIN imgs |-> 0],
     made  |-> 0,
     panic |-> FALSE]

DiffuseFormat(f) ==
    CASE f = "R8G8B8A8" -> "RGBA"
      [] f = "R8G8B8" -> "RGB"
      [] f = "R8" -> "RED"
      [] OTHER -> "panic"

SpecularFormat(f) ==
    CASE f = "R8G8B8A8" -> "RGBA"
      [] f = "R8G8B8" -> "RGB"
      [] OTHER -> "RGB"

\* Rc::new(Texture::load_from_gltf(&image.pixels, w, h, role, format)): rc is
\* the identity of the allocation, pixels the image the bytes come from.
load_from_gltf(rc, image_index, role, format) ==
    [rc |-> rc, pixels |-> image_index, role |-> role, format |-> format]

\* A slot's lookup that ignores the cache and loads the image on every use.
cache_entry_always_loads(ls, image_index, role, imgs) ==
    LET format == IF role = "diffuse" THEN DiffuseFormat(imgs[image_index])
                                      ELSE SpecularFormat(imgs[image_index])
        tex == load_from_gltf(ls.made + 1, image_index, role, format)
    IN  IF format = "panic"
        THEN [ls |-> [ls EXCEPT !.panic = TRUE], out |-> None]
        ELSE [ls |-> [ls EXCEPT !.cache[image_index] = Some(tex),
                                !.loads[image_index] = @ + 1,
                                !.made = @ + 1],
              out |-> tex]

\* A slot's lookup whose texture takes the role of the asking slot, cached
\* or not.
cache_entry_relabels(ls, image_index, role, imgs) ==
    LET format == IF role = "diffuse" THEN DiffuseFormat(imgs[image_index])
                                      ELSE SpecularFormat(imgs[image_index])
        tex == load_from_gltf(ls.made + 1, image_index, role, format)
    IN  IF ls.cache[image_index] # None
        THEN [ls |-> ls, out |-> [ls.cache[image_index][1] EXCEPT !.role = role]]
        ELSE IF format = "panic"
        THEN [ls |-> [ls EXCEPT !.panic = TRUE], out |-> None]
        ELSE [ls |-> [ls EXCEPT !.cache[image_index] = Some(tex),
                                !.loads[image_index] = @ + 1,
                                !.made = @ + 1],
              out |-> tex]

\* texture_cache.entry(image_index).or_insert_with(|| ...).clone() of the
\* diffuse (lines 126-147) and the specular (lines 159-180) slot: the
\* closure runs, and may panic, only when the cache has no entry.
cache_entry(ls, image_index, role, imgs) ==
    LET format == IF role = "diffuse" THEN DiffuseFormat(imgs[image_index])
                                      ELSE SpecularFormat(imgs[image_index])
        tex == load_from_gltf(ls.made + 1, image_index, role, format)
    IN  IF ls.cache[image_index] # None
        THEN [ls |-> ls, out |-> ls.cache[image_index][1]]
        ELSE IF format = "panic"
        THEN [ls |-> [ls EXCEPT !.panic = TRUE], out |-> None]
        ELSE [ls |-> [ls EXCEPT !.cache[image_index] = Some(tex),
                                !.loads[image_index] = @ + 1,
                                !.made = @ + 1],
              out |-> tex]

\* The color of a primitive whose first vertex color is dropped for white.
primitive_color_white(p) == White

\* Lines 80-85: the first vertex's color, or white without a color channel.
primitive_color(p) == IF p.colors # None THEN p.colors[1][1] ELSE White

\* Lines 87-91
primitive_indices(p) == IF p.indices # None THEN p.indices[1] ELSE <<>>

\* Lines 94-103
primitive_vertices(p, color) ==
    [i \in 1..Len(p.positions[1]) |->
        [position |-> p.positions[1][i], normal |-> p.normals[1][i],
         texUV |-> p.tex_coords[1][i], color |-> color]]

\* Mesh::new(vertices, indices, textures, base_color, double_sided)
Mesh_new(vertices, indices, textures, base_color, double_sided) ==
    [vertices |-> vertices, indices |-> indices, textures |-> textures,
     base_color |-> base_color, double_sided |-> double_sided]

\* Lines 185-187: the primitive's Mesh, after both texture slots; d and s
\* are the outcomes of the diffuse and of the specular lookup.
primitive_mesh(d, s, p) ==
    [ls |-> s.ls,
     mesh |-> Mesh_new(primitive_vertices(p, primitive_color(p)), primitive_indices(p),
                       (IF p.base_color_texture # None THEN <<d.out>> ELSE <<>>)
                       \o (IF p.metallic_roughness_texture # None THEN <<s.out>> ELSE <<>>),
                       p.base_color_factor, p.double_sided)]

\* Lines 153-183: the specular texture, looked up after the diffuse one.
load_specular(d, p, imgs) ==
    IF d.ls.panic THEN [ls |-> d.ls, mesh |-> None]
    ELSE primitive_mesh(d,
            IF p.metallic_roughness_texture # None
            THEN cache_entry(d.ls, p.metallic_roughness_texture[1], "specular", imgs)
            ELSE [ls |-> d.ls, out |-> None],
            p)

\* One iteration of the loop over mesh.primitives(), lines 72-187: the three
\* unwraps of lines 75-78, then the diffuse texture of lines 120-150.
load_primitive(ls, p, imgs) ==
    IF p.positions = None \/ p.normals = None \/ p.tex_coords = None
    THEN [ls |-> [ls EXCEPT !.panic = TRUE], mesh |-> None]
    ELSE load_specular(
            IF p.base_color_texture # None
            THEN cache_entry(ls, p.base_color_texture[1], "diffuse", imgs)
            ELSE [ls |-> ls, out |-> None],
            p, imgs)

RECURSIVE load_primitives(_, _, _, _)
push_mesh(r, prims, imgs, acc) ==
    IF r.ls.panic THEN [ls |-> r.ls, meshes |-> acc]
    ELSE load_primitives(r.ls, prims, imgs, Append(acc, r.mesh))

\* The loop over mesh.primitives(), line 71.
load_primitives(ls, prims, imgs, acc) ==
    IF prims = <<>>
    THEN [ls |-> ls, meshes |-> acc]
    ELSE push_mesh(load_primitive(ls, Head(prims), imgs), Tail(prims), imgs, acc)

\* Lines 54-67: translation_matrix * rotation_matrix * scale_matrix
node_matrix(t) ==
    LET q == quat(Sc(t.rotation[1]), Sc(t.rotation[2]), Sc(t.rotation[3]), Sc(t.rotation[4]))
    IN  MatMul(MatMul(glm_translate(Identity4, t.translation), quat_to_mat4(q)),
               glm_scale(Identity4, t.scale))

\* Lines 190-200: the Node of a document node n whose primitives gave r.
emit_node(r, n) ==
    [ls |-> r.ls,
     emit |-> <<[name |-> IF n.name = None THEN "" ELSE n.name[1],
                 transform |->
                    [translation |-> n.transform.translation,
                     rotation |-> quat(Sc(n.transform.rotation[1]), Sc(n.transform.rotation[2]),
                                       Sc(n.transform.rotation[3]), Sc(n.transform.rotation[4])),
                     scale |-> n.transform.scale],
                 transform_matrix |-> node_matrix(n.transform),
                 mesh_primitives |-> r.meshes]>>]

\* A node step that also emits the nodes that have no mesh.
load_node_keeps_meshless(ls, n, imgs) ==
    IF n.name = None
    THEN [ls |-> [ls EXCEPT !.panic = TRUE], emit |-> <<>>]
    ELSE emit_node(load_primitives(ls, IF n.mesh = None THEN <<>> ELSE n.mesh[1], imgs, <<>>), n)

\* One iteration of the loop over doc.nodes(), lines 51-201.  Line 52 unwraps
\* the node's name before anything else; line 191 would default it to "".
load_node(ls, n, imgs) ==
    IF n.name = None
    THEN [ls |-> [ls EXCEPT !.panic = TRUE], emit |-> <<>>]
    ELSE IF n.mesh = None
    THEN [ls |-> ls, emit |-> <<>>]
    ELSE emit_node(load_primitives(ls, n.mesh[1], imgs, <<>>), n)

RECURSIVE load_nodes(_, _, _, _)
push_node(r, ns, imgs, acc) ==
    IF r.ls.panic THEN [ls |-> r.ls, nodes |-> acc]
    ELSE load_nodes(r.ls, ns, imgs, acc \o r.emit)

\* The loop over doc.nodes(), line 51.
load_nodes(ls, ns, imgs, acc) ==
    IF ns = <<>>
    THEN [ls |-> ls, nodes |-> acc]
    ELSE push_node(load_node(ls, Head(ns), imgs), Tail(ns), imgs, acc)

\* The whole of Model::new on a document: the nodes of the Model, or a panic.
Model_new_result(d, imgs) == load_nodes(NoCache(imgs), d, imgs, <<>>)

\* ------------------------------------------------------------ Model::draw
GlCall(call, arg) == [call |-> call, arg |-> arg]

RECURSIVE draw_meshes(_, _)
draw_meshes(meshes, acc) ==
    IF meshes = <<>> THEN acc
    ELSE draw_meshes(Tail(meshes), Append(acc, GlCall("Mesh::draw", Head(meshes))))

\* The draw loop over the nodes in reverse, as a back-to-front sort of the
\* nodes would leave them.
RECURSIVE draw_nodes_reordered(_, _)
draw_nodes_reordered(ns, acc) ==
    IF ns = <<>> THEN acc
    ELSE LET n == ns[Len(ns)]
         IN  draw_nodes_reordered(SubSeq(ns, 1, Len(ns) - 1),
                 draw_meshes(n.mesh_primitives,
                     acc \o <<GlCall("Shader::bind", <<>>),
                              GlCall("Shader::set_uniform_mat4f",
                                     <<"u_Model", n.transform_matrix>>)>>))

\* Lines 215-223: per node bind, upload u_Model, draw every mesh.
RECURSIVE draw_nodes(_, _)
draw_nodes(ns, acc) ==
    IF ns = <<>> THEN acc
    ELSE LET n == Head(ns)
         IN  draw_nodes(Tail(ns),
                 draw_meshes(n.mesh_primitives,
                     acc \o <<GlCall("Shader::bind", <<>>),
                              GlCall("Shader::set_uniform_mat4f",
                                     <<"u_Model", n.transform_matrix>>)>>))

\* ----------------------------------------- translate / rotate / scale
VAdd(a, b) == [i \in 1..3 |-> a[i] + b[i]]

\* Line 229 with the translation matrix multiplied from the left.
translate_node_premultiplied(n, v) ==
    [n EXCEPT !.transform.translation = VAdd(@, v),
              !.transform_matrix = MatMul(glm_translate(Identity4, v), @)]

\* Lines 228-229
translate_node(n, v) ==
    [n EXCEPT !.transform.translation = VAdd(@, v),
              !.transform_matrix = glm_translate(@, v)]

\* Line 239 storing the new rotation instead of composing it.
rotate_node_overwrites(n, axis, degrees) ==
    LET rotation_quat == quat_angle_axis(degrees, axis)
    IN  [n EXCEPT !.transform.rotation = rotation_quat,
                  !.transform_matrix = MatMul(quat_to_mat4(rotation_quat), @)]

\* Lines 234-240
rotate_node(n, axis, degrees) ==
    LET rotation_quat == quat_angle_axis(degrees, axis)
    IN  [n EXCEPT !.transform.rotation = QuatMul(rotation_quat, @),
                  !.transform_matrix = MatMul(quat_to_mat4(rotation_quat), @)]

\* Lines 246-247
scale_node(n, v) ==
    [n EXCEPT !.transform.scale = VAdd(@, v),
              !.transform_matrix = glm_scale(@, v)]

\* ------------------------------------------------------------- callbacks
\* define_ready that keeps a callback registered earlier.
set_ready_callback_first_wins(old, f) == IF old = None THEN Some(f) ELSE old

\* Line 252
set_ready_callback(old, f) == Some(f)

\* Line 259
set_behavior_callback(old, f) == Some(f)

\* Lines 265-267 and 272-274: the callbacks one call invokes.
invoke(callback) == IF callback # None THEN <<callback[1]>> ELSE <<>>

\* --------------------------------------------------------------- inputs
MaxNodes == 2
MaxPrims == 2
MaxSceneNodes == 2
MaxOps == 3

ImageIndices == {0, 1}

Slots == {None} \cup {Some(i) : i \in ImageIndices}

Primitive(base, mr, colors, indices, absent) ==
    [positions  |-> IF absent = "positions" THEN None
                    ELSE Some(<< <<0, 0, 0>>, <<0, 1, 0>> >>),
     normals    |-> IF absent = "normals" THEN None
                    ELSE Some(<< <<0, 0, 1>>, <<0, 0, 1>> >>),
     tex_coords |-> IF absent = "tex_coords" THEN None
                    ELSE Some(<< <<0, 0>>, <<1, 1>> >>),
     colors     |-> colors,
     indices    |-> indices,
     base_color_texture |-> base,
     metallic_roughness_texture |-> mr,
     base_color_factor |-> White,
     double_sided |-> FALSE]

PlainPrimitive == Primitive(None, None, None, None, "none")

\* Primitives that differ in their texture slots.
TexturePrimitives == {Primitive(b, m, None, None, "none") : b \in Slots, m \in Slots}

\* Primitives that differ in their accessors.
GeometryPrimitives ==
    {Primitive(None, None, c, i, "none") :
        c \in {None, Some(<< <<1, 0, 0, 1>>, <<0, 0, 1, 1>> >>)},
        i \in {None, Some(<<0, 1>>)}}
    \cup {Primitive(None, None, None, None, a) : a \in {"positions", "normals", "tex_coords"}}

UnitTransform ==
    [translation |-> <<0, 0, 0>>, rotation |-> <<0, 0, 0, 1>>, scale |-> <<1, 1, 1>>]

\* The nodes with exactly k primitives drawn from P and a name from N.
NodesOf(k, P, N) ==
    IF k = 0
    THEN {[name |-> nm, transform |-> UnitTransform, mesh |-> None] : nm \in N}
    ELSE {[name |-> nm, transform |-> UnitTransform, mesh |-> Some(m)] :
            nm \in N, m \in [1..k -> P]}

\* The documents of at most n nodes and at most p primitives in all.
RECURSIVE DocsOf(_, _, _, _)
DocsOf(n, p, P, N) ==
    {<<>>} \cup
    (IF n = 0 THEN {}
     ELSE UNION {{<<nd>> \o rest : nd \in NodesOf(k, P, N),
                                   rest \in DocsOf(n - 1, p - k, P, N)} :
                 k \in 0..p})

\* Node i of a document gets the translation <<i, 0, 0>>, and primitive j of
\* node i the positions <<10*i + j, 0, 0>>, <<10*i + j, 1, 0>>.
PlacePrimitive(pr, i, j) ==
    IF pr.positions = None THEN pr
    ELSE [pr EXCEPT !.positions =
            Some(<< <<10 * i + j, 0, 0>>, <<10 * i + j, 1, 0>> >>)]

PlaceNode(nd, i) ==
    [nd EXCEPT !.transform.translation = <<i, 0, 0>>,
               !.mesh = IF @ = None THEN None
                        ELSE Some([j \in 1..Len(@[1]) |-> PlacePrimitive(@[1][j], i, j)])]

Place(d) == [i \in 1..Len(d) |-> PlaceNode(d[i], i)]

Named == {Some("node")}

\* Three families of documents: the primitives differ in their texture
\* slots, or in their accessors, or the nodes in having a name.
TextureDocs == {Place(d) : d \in DocsOf(MaxNodes, MaxPrims, TexturePrimitives, Named)}

GeometryDocs == {Place(d) : d \in DocsOf(MaxNodes, MaxPrims, GeometryPrimitives, Named)}

NameDocs == {Place(d) : d \in DocsOf(MaxNodes, MaxPrims, {PlainPrimitive}, Named \cup {None})}

\* Image 0 has any format, image 1 a supported or an unsupported one.
ImageTables ==
    {[i \in ImageIndices |-> IF i = 0 THEN f ELSE g] :
        f \in Formats, g \in {"R8G8B8A8", "R8G8"}}

PlainImages == [i \in ImageIndices |-> "R8G8B8A8"]

\* The scenes the runtime operations act on, of 1..MaxSceneNodes nodes: the
\* odd nodes are turned half around z, stretched and moved and have two
\* primitives, the even nodes are only moved and have one.
SceneTransform(i) ==
    IF i % 2 = 1
    THEN [translation |-> <<0, 2, 0>>, rotation |-> <<0, 0, 1, 0>>, scale |-> <<2, 1, 1>>]
    ELSE [translation |-> <<i, 0, 0>>, rotation |-> <<0, 0, 0, 1>>, scale |-> <<1, 1, 1>>]

SceneNode(i) ==
    [PlaceNode([name |-> Some("node"), transform |-> UnitTransform,
                mesh |-> Some(IF i % 2 = 1 THEN <<PlainPrimitive, PlainPrimitive>>
                                           ELSE <<PlainPrimitive>>)], i)
        EXCEPT !.transform = SceneTransform(i)]

SceneDocs == {[i \in 1..n |-> SceneNode(i)] : n \in 1..MaxSceneNodes}

Deltas == {<<1, 0, 0>>, <<0, -2, 3>>}

Axes == {<<0, 1, 0>>, <<1, 0, 0>>}

Factors == {<<2, 1, 3>>}

ReadyFns == {"on_ready_a", "on_ready_b"}

BehaviorFns == {"on_frame_a", "on_frame_b"}

\* ---------------------------------------------------------------- state
NoOp == [op |-> "none", v |-> <<>>, d |-> 0, f |-> "", pre |-> <<>>]

Op(op, v, d, f) == [op |-> op, v |-> v, d |-> d, f |-> f, pre |-> nodes]

\* Before Model::new.  Line 205 builds the Model from its nodes alone and
\* names no callback: the Model starts with none registered.
InitWith(d, imgs) ==
    /\ doc = d
    /\ images = imgs
    /\ status = "start"
    /\ nodes = <<>>
    /\ ready_callback = None
    /\ behavior_callback = None
    /\ loads = [i \in ImageIndices |-> 0]
    /\ gl = <<>>
    /\ calls = <<>>
    /\ last = NoOp
    /\ prev = NoOp
    /\ ops = 0

Init == \E d \in SceneDocs : InitWith(d, PlainImages)

InitLoad ==
    \/ \E d \in TextureDocs, imgs \in ImageTables : InitWith(d, imgs)
    \/ \E d \in GeometryDocs \cup NameDocs : InitWith(d, PlainImages)

\* Model::new(file): lines 43-206.  A panic leaves no Model.
Model_new_returns(r) ==
    /\ status' = IF r.ls.panic THEN "panicked" ELSE "loaded"
    /\ nodes' = IF r.ls.panic THEN <<>> ELSE r.nodes
    /\ loads' = r.ls.loads

Model_new ==
    /\ status = "start"
    /\ Model_new_returns(Model_new_result(doc, images))
    /\ last' = Op("new", <<>>, 0, "")
    /\ prev' = last
    /\ UNCHANGED <<doc, images, ready_callback, behavior_callback, gl, calls, ops>>

Call(op, v, d, f) ==
    /\ status = "loaded"
    /\ ops < MaxOps
    /\ ops' = ops + 1
    /\ last' = Op(op, v, d, f)
    /\ prev' = last
    /\ UNCHANGED <<doc, images, status, loads>>

draw ==
    /\ Call("draw", <<>>, 0, "")
    /\ gl' = draw_nodes(nodes, <<>>)
    /\ calls' = <<>>
    /\ UNCHANGED <<nodes, ready_callback, behavior_callback>>

translate(v) ==
    /\ Call("translate", v, 0, "")
    /\ nodes' = [i \in 1..Len(nodes) |-> translate_node(nodes[i], v)]
    /\ calls' = <<>>
    /\ UNCHANGED <<gl, ready_callback, behavior_callback>>

rotate(axis, degrees) ==
    /\ Call("rotate", axis, degrees, "")
    /\ nodes' = [i \in 1..Len(nodes) |-> rotate_node(nodes[i], axis, degrees)]
    /\ calls' = <<>>
    /\ UNCHANGED <<gl, ready_callback, behavior_callback>>

scale(v) ==
    /\ Call("scale", v, 0, "")
    /\ nodes' = [i \in 1..Len(nodes) |-> scale_node(nodes[i], v)]
    /\ calls' = <<>>
    /\ UNCHANGED <<gl, ready_callback, behavior_callback>>

define_ready(f) ==
    /\ Call("define_ready", <<>>, 0, f)
    /\ ready_callback' = set_ready_callback(ready_callback, f)
    /\ calls' = <<>>
    /\ UNCHANGED <<nodes, gl, behavior_callback>>

define_behavior(f) ==
    /\ Call("define_behavior", <<>>, 0, f)
    /\ behavior_callback' = set_behavior_callback(behavior_callback, f)
    /\ calls' = <<>>
    /\ UNCHANGED <<nodes, gl, ready_callback>>

ready ==
    /\ Call("ready", <<>>, 0, "")
    /\ calls' = invoke(ready_callback)
    /\ UNCHANGED <<nodes, gl, ready_callback, behavior_callback>>

behavior ==
    /\ Call("behavior", <<>>, 0, "")
    /\ calls' = invoke(behavior_callback)
    /\ UNCHANGED <<nodes, gl, ready_callback, behavior_callback>>

Next ==
    \/ Model_new
    \/ draw
    \/ \E v \in Deltas : translate(v)
    \/ \E a \in Axes, d \in Degrees : rotate(a, d)
    \/ \E v \in Factors : scale(v)
    \/ \E f \in ReadyFns : define_ready(f)
    \/ \E f \in BehaviorFns : define_behavior(f)
    \/ ready
    \/ behavior

NextLoad == Model_new

Spec == Init /\ [][Next]_vars

SpecLoad == InitLoad /\ [][NextLoad]_vars

\* ------------------------------------------------- reading the document
\* What the claims say of a load is stated on the document itself.

\* The document nodes that have a mesh, in document order.
MeshNodes(d) == SelectSeq(d, LAMBDA n : n.mesh # None)

\* The primitive behind mesh j of the k-th node that has a mesh.
PrimitiveOf(k, j) == MeshNodes(doc)[k].mesh[1][j]

\* Every use of an image by a texture slot: primitive j of mesh node k.
SlotRefs ==
    UNION {UNION {
        (IF PrimitiveOf(k, j).base_color_texture # None
         THEN {[k |-> k, j |-> j, slot |-> 1,
                image |-> PrimitiveOf(k, j).base_color_texture[1]]}
         ELSE {})
        \cup
        (IF PrimitiveOf(k, j).metallic_roughness_texture # None
         THEN {[k |-> k, j |-> j, slot |-> 2,
                image |-> PrimitiveOf(k, j).metallic_roughness_texture[1]]}
         ELSE {}) :
        j \in 1..Len(MeshNodes(doc)[k].mesh[1])} :
        k \in 1..Len(MeshNodes(doc))}

\* The loader reaches r before q: document order, base color before
\* metallic-roughness within a primitive.
Before(r, q) ==
    \/ r.k < q.k
    \/ r.k = q.k /\ r.j < q.j
    \/ r.k = q.k /\ r.j = q.j /\ r.slot < q.slot

RoleOfSlot(slot) == IF slot = 1 THEN "diffuse" ELSE "specular"

\* The role of the slot that uses image i first.
FirstRole(i) ==
    RoleOfSlot((CHOOSE r \in SlotRefs :
                    r.image = i /\ \A q \in SlotRefs : q.image = i => (q = r \/ Before(r, q))).slot)

\* The handle a Mesh holds for a slot: the base color texture is pushed
\* first, the metallic-roughness texture last.
Handle(r) ==
    IF r.slot = 1
    THEN nodes[r.k].mesh_primitives[r.j].textures[1]
    ELSE nodes[r.k].mesh_primitives[r.j].textures[Len(nodes[r.k].mesh_primitives[r.j].textures)]

SupportedBaseColor == {"R8G8B8A8", "R8G8B8", "R8"}

DocPrimitives ==
    UNION {{PrimitiveOf(k, j) : j \in 1..Len(MeshNodes(doc)[k].mesh[1])} :
            k \in 1..Len(MeshNodes(doc))}

HasUnnamedNode == \E i \in 1..Len(doc) : doc[i].name = None

MissesAttribute ==
    \E p \in DocPrimitives : p.positions = None \/ p.normals = None \/ p.tex_coords = None

HasUnsupportedBaseColor ==
    \E p \in DocPrimitives :
        /\ p.base_color_texture # None
        /\ images[p.base_color_texture[1]] \notin SupportedBaseColor

\* ---------------------------------------------------------------- claims

\* C1: two primitives of one load that reference the same image index, in
\* either slot and under any nodes, hold the same shared Texture instance,
\* and Texture::load_from_gltf ran exactly once for that image index.
C1_SharedTexture ==
    status = "loaded" =>
        /\ \A r \in SlotRefs, q \in SlotRefs :
                r.image = q.image => Handle(r).rc = Handle(q).rc
        /\ \A r \in SlotRefs : loads[r.image] = 1

C1_Witness ==
    /\ status = "loaded"
    /\ \E r \in SlotRefs, q \in SlotRefs :
            r.image = q.image /\ r.k # q.k /\ r.slot # q.slot
    /\ \E r \in SlotRefs, q \in SlotRefs : r.image # q.image

\* C2: the node list of a document that loads holds exactly one Node per
\* document node that has a mesh, in document order; a node without a mesh
\* is absent.
C2_OneNodePerMeshNode ==
    status = "loaded" =>
        /\ Len(nodes) = Len(MeshNodes(doc))
        /\ \A k \in 1..Len(nodes) :
            /\ nodes[k].transform.translation = MeshNodes(doc)[k].transform.translation
            /\ Len(nodes[k].mesh_primitives) = Len(MeshNodes(doc)[k].mesh[1])
            /\ Len(nodes[k].mesh_primitives) > 0

C2_Witness ==
    /\ status = "loaded"
    /\ Len(doc) = 2
    /\ doc[1].mesh = None
    /\ Len(nodes) = 1
    /\ nodes[1].transform.translation = <<2, 0, 0>>

\* C3: a document with an unnamed node loads like any other: the load is
\* no error, and the Node of an unnamed node that has a mesh has the name "".
C3_UnnamedNodeIsNoError ==
    (status # "start" /\ HasUnnamedNode /\ ~MissesAttribute /\ ~HasUnsupportedBaseColor) =>
        /\ status = "loaded"
        /\ \A k \in 1..Len(nodes) :
                MeshNodes(doc)[k].name = None => nodes[k].name = ""

\* C4: a base color slot that references an image of an unsupported pixel
\* format aborts the load, in every order of primitives and slots, also
\* when the image was referenced before through a metallic-roughness slot.
C4_UnsupportedBaseColorAborts ==
    (status # "start" /\ HasUnsupportedBaseColor) => status = "panicked"

\* C5 as stated: at most two textures per Mesh, the base color texture
\* first with role "diffuse", the metallic-roughness texture after it with
\* role "specular".
C5_RoleFollowsSlot ==
    status = "loaded" =>
        /\ \A k \in 1..Len(nodes) : \A j \in 1..Len(nodes[k].mesh_primitives) :
                Len(nodes[k].mesh_primitives[j].textures) <= 2
        /\ \A r \in SlotRefs : Handle(r).role = RoleOfSlot(r.slot)

\* C5, amended: at most two textures per Mesh, one per used slot, the base
\* color texture first and the metallic-roughness texture after it, each
\* made of the slot's image; the role of a texture is that of the slot that
\* used its image first in the load.
C5_RoleOfFirstUse ==
    status = "loaded" =>
        /\ \A k \in 1..Len(nodes) : \A j \in 1..Len(nodes[k].mesh_primitives) :
                Len(nodes[k].mesh_primitives[j].textures) =
                    Cardinality({r \in SlotRefs : r.k = k /\ r.j = j})
        /\ \A r \in SlotRefs :
                /\ Handle(r).pixels = r.image
                /\ Handle(r).role = FirstRole(r.image)

C5_Witness ==
    /\ status = "loaded"
    /\ \E r \in SlotRefs, q \in SlotRefs :
            /\ r.k = q.k /\ r.j = q.j /\ r.slot = 1 /\ q.slot = 2
            /\ r.image # q.image
            /\ Handle(r).role = "specular"
            /\ Handle(q).role = "specular"

\* C10: all vertices of a Mesh carry one color: white without a color
\* channel, else the color of the primitive's first vertex; and a load fails
\* only for a reason other than the color channel.
C10_OneColorPerMesh ==
    /\ status = "loaded" =>
        \A k \in 1..Len(nodes) : \A j \in 1..Len(nodes[k].mesh_primitives) :
            \A i \in 1..Len(nodes[k].mesh_primitives[j].vertices) :
                nodes[k].mesh_primitives[j].vertices[i].color =
                    IF PrimitiveOf(k, j).colors = None THEN <<1, 1, 1, 1>>
                    ELSE PrimitiveOf(k, j).colors[1][1]
    /\ status = "panicked" =>
        HasUnnamedNode \/ MissesAttribute \/ HasUnsupportedBaseColor

C10_Witness ==
    /\ status = "loaded"
    /\ Len(nodes) = 1
    /\ Len(nodes[1].mesh_primitives) = 2
    /\ PrimitiveOf(1, 1).colors # None
    /\ PrimitiveOf(1, 2).colors = None
    /\ nodes[1].mesh_primitives[1].vertices[2].color = <<1, 0, 0, 1>>
    /\ nodes[1].mesh_primitives[2].vertices[2].color = <<1, 1, 1, 1>>

\* The translation matrix of v, written out.
TranslationMatrix(v) ==
    << <<Sc(1), Sc(0), Sc(0), Sc(v[1])>>, <<Sc(0), Sc(1), Sc(0), Sc(v[2])>>,
       <<Sc(0), Sc(0), Sc(1), Sc(v[3])>>, <<Sc(0), Sc(0), Sc(0), Sc(1)>> >>

TwoTranslations == last.op = "translate" /\ prev.op = "translate"

\* C6 as stated: after translate(T1) and translate(T2) every Node's
\* translation is the original plus T1 + T2, and its matrix is the original
\* matrix with translate(T1), then translate(T2), multiplied from the left.
C6_TranslateLeftComposed ==
    TwoTranslations =>
        \A i \in 1..Len(nodes) :
            /\ nodes[i].transform.translation =
                    VAdd(prev.pre[i].transform.translation, VAdd(prev.v, last.v))
            /\ nodes[i].transform_matrix =
                    MatMul(TranslationMatrix(last.v),
                           MatMul(TranslationMatrix(prev.v), prev.pre[i].transform_matrix))

\* C6, amended: after translate(T1) and translate(T2) every Node's
\* translation is the original plus T1 + T2, and its matrix is the original
\* matrix multiplied from the right by translate(T1), then by translate(T2).
C6_TranslateRightComposed ==
    TwoTranslations =>
        \A i \in 1..Len(nodes) :
            /\ nodes[i].transform.translation =
                    VAdd(prev.pre[i].transform.translation, VAdd(prev.v, last.v))
            /\ nodes[i].transform_matrix =
                    MatMul(MatMul(prev.pre[i].transform_matrix, TranslationMatrix(prev.v)),
                           TranslationMatrix(last.v))

C6_Witness ==
    /\ TwoTranslations
    /\ prev.v = <<1, 0, 0>>
    /\ last.v = <<0, -2, 3>>
    /\ Len(nodes) = 2
    /\ nodes[1].transform.translation = <<1, 0, 3>>
    /\ nodes[1].transform_matrix[1][4] = Sc(-2)

\* Where the calls of node k begin in the trace of one draw.
RECURSIVE DrawStart(_)
DrawStart(k) ==
    IF k = 1 THEN 1 ELSE DrawStart(k - 1) + 2 + Len(nodes[k - 1].mesh_primitives)

\* C7: one draw visits the Nodes in the loader's order and per Node binds
\* the shader, uploads that Node's transform_matrix as u_Model and draws
\* each of its Meshes once, in stored order; the order is that of the
\* document whatever translate / rotate / scale / define_* calls ran before.
C7_DrawOrder ==
    last.op = "draw" =>
        /\ Len(gl) = DrawStart(Len(nodes) + 1) - 1
        /\ \A k \in 1..Len(nodes) :
            /\ gl[DrawStart(k)].call = "Shader::bind"
            /\ gl[DrawStart(k) + 1].call = "Shader::set_uniform_mat4f"
            /\ gl[DrawStart(k) + 1].arg = <<"u_Model", nodes[k].transform_matrix>>
            /\ \A j \in 1..Len(nodes[k].mesh_primitives) :
                /\ gl[DrawStart(k) + 1 + j].call = "Mesh::draw"
                /\ gl[DrawStart(k) + 1 + j].arg = nodes[k].mesh_primitives[j]
                /\ gl[DrawStart(k) + 1 + j].arg.vertices[1].position =
                        PrimitiveOf(k, j).positions[1][1]

C7_Witness ==
    /\ last.op = "draw"
    /\ prev.op = "rotate"
    /\ ops = 3
    /\ Len(nodes) = 2
    /\ Len(gl) = 7
    /\ gl[7].arg.vertices[1].position = <<21, 0, 0>>

OppositeRotations ==
    /\ last.op = "rotate"
    /\ prev.op = "rotate"
    /\ last.v = prev.v
    /\ last.d = 0 - prev.d

\* C8: rotate(axis, d) followed by rotate(axis, -d) restores every Node's
\* stored rotation quaternion.
C8_RotateBackRestores ==
    OppositeRotations =>
        \A i \in 1..Len(nodes) :
            nodes[i].transform.rotation = prev.pre[i].transform.rotation

C8_Witness ==
    /\ OppositeRotations
    /\ ops = 2
    /\ prev.v = <<0, 1, 0>>
    /\ prev.d = 90
    /\ Len(nodes) = 2
    /\ last.pre[1].transform.rotation # nodes[1].transform.rotation
    /\ nodes[1].transform.rotation = quat(Sc(0), Sc(0), Sc(1), Sc(0))

====
